---- MODULE Spec2Model ----
\* gcal-tui: the day's event list, its conflict detection, and the bubbletea
\* update loop (model.Update) with the asynchronous commands it dispatches.
EXTENDS Integers, Sequences, FiniteSets, TLC

\* ------------------------------------------------------------------ bounds

\* instants of a day are 0..MaxTime (one unit = 30 minutes in the scenario day)
MaxTime == 2
\* upstream events per day in the enumerated days
MaxEvents == 2
\* displayed days are 0..MaxDay
MaxDay == 2
\* commands the user's keys start in one run, after the first load
MaxCommands == 3
\* the -date flag shifts by 0..MaxShift days
MaxShift == 2
\* the UTC offsets of time.Local are -MaxOffset..MaxOffset hours
MaxOffset == 1

Times == 0..MaxTime
Days == 0..MaxDay

\* ------------------------------------------------------------ upstream data

\* a *calendar.Event as the list call returns it: dt says whether Start.DateTime
\* and End.DateTime are present ("missing" for an all-day event) and parse;
\* Self/ResponseStatus/Comment are the viewer's own attendee entry (Self = FALSE:
\* no such entry); day is the calendar day of Start.DateTime
RawEvent(id, d, s, e, dt, self, rs, creator) ==
    [Id |-> id, day |-> d, Start |-> s, End |-> e, dt |-> dt, Self |-> self,
     ResponseStatus |-> rs, Comment |-> "", CreatorSelf |-> creator]

\* the response statuses of the viewer's own attendee entry
Statuses == {"accepted", "declined", "needsAction", "tentative"}

\* an event the viewer is invited to, with any interval, also an empty or an
\* inverted one
RawChoices ==
    {RawEvent(0, 0, s, e, "ok", TRUE, st, FALSE) : s \in Times, e \in Times, st \in Statuses}

\* OrderBy("startTime"): every listing is sorted by start; ids are unique
SortedByStart(l) == \A k \in 1..(Len(l) - 1) : l[k].Start <= l[k + 1].Start

WithIds(l) == [k \in 1..Len(l) |-> [l[k] EXCEPT !.Id = k]]

\* A 09:00-10:00 needsAction, B 09:30-10:30 accepted, C 11:00-12:00 declined
ScenarioDay(d) ==
    << RawEvent(d * 10 + 1, d, 0, 2, "ok", TRUE, "needsAction", FALSE),
       RawEvent(d * 10 + 2, d, 1, 3, "ok", TRUE, "accepted", FALSE),
       RawEvent(d * 10 + 3, d, 4, 6, "ok", TRUE, "declined", FALSE) >>

\* an all-day event, a creator-only event and a zero-length event inside it
CreatorDay(d) ==
    << RawEvent(d * 10 + 1, d, 0, 0, "missing", FALSE, "", FALSE),
       RawEvent(d * 10 + 2, d, 0, 3, "ok", FALSE, "", TRUE),
       RawEvent(d * 10 + 3, d, 1, 1, "ok", TRUE, "tentative", FALSE) >>

\* one event, for every way the viewer can be its attendee and its creator
ProfileDays(d) ==
    {<< RawEvent(d * 10 + 1, d, 0, 1, "ok", self, IF self THEN st ELSE "", creator) >> :
        self \in BOOLEAN, creator \in BOOLEAN, st \in Statuses}

\* a listing that holds one id twice, next to another event: all three overlap
DuplicateDay(d) ==
    << RawEvent(d * 10 + 1, d, 0, 2, "ok", TRUE, "accepted", FALSE),
       RawEvent(d * 10 + 1, d, 0, 2, "ok", TRUE, "accepted", FALSE),
       RawEvent(d * 10 + 2, d, 1, 3, "ok", TRUE, "needsAction", FALSE) >>

QuietDay(d) ==
    << RawEvent(d * 10 + 1, d, 2, 3, "ok", FALSE, "", FALSE) >>

\* an event whose Start.DateTime does not parse, between two that do
BadDay(d) ==
    << RawEvent(d * 10 + 1, d, 0, 1, "ok", TRUE, "accepted", FALSE),
       RawEvent(d * 10 + 2, d, 1, 2, "bad", TRUE, "accepted", FALSE),
       RawEvent(d * 10 + 3, d, 2, 3, "ok", TRUE, "needsAction", FALSE) >>

Upstream(d) ==
    CASE d % 3 = 1 -> ScenarioDay(d)
      [] d % 3 = 0 -> CreatorDay(d)
      [] OTHER -> QuietDay(d)

\* ------------------------------------------------------------- eventItem

Declined(e) == e.AttendeeStatus = "declined"

Accepted(e) == e.AttendeeStatus = "accepted"

intersectsWithNoEq(e, e2) == ~(e.End < e2.Start \/ e2.End < e.Start)

intersectsWith(e, e2) == ~(e.End <= e2.Start \/ e2.End <= e.Start)

\* the attendee status the historical main gives a fresh eventItem
AttendeeStatusOfNoCreator(it) == IF it.Self THEN it.ResponseStatus ELSE "unknown"

\* the attendee status fetchEventsForDate gives a fresh eventItem
fetchAttendeeStatus(it) ==
    LET st == IF it.Self THEN it.ResponseStatus ELSE "unknown"
    IN  IF st = "unknown" /\ it.CreatorSelf THEN "accepted" ELSE st

\* the attendee status loadEvents gives a fresh eventItem
AttendeeStatusOf(it) ==
    LET st == IF it.Self THEN it.ResponseStatus ELSE "unknown"
    IN  IF st = "unknown" /\ it.CreatorSelf THEN "accepted" ELSE st

NewEventItem(it) ==
    [Id |-> it.Id, day |-> it.day, Start |-> it.Start, End |-> it.End,
     Self |-> it.Self, ResponseStatus |-> it.ResponseStatus, Comment |-> it.Comment,
     CreatorSelf |-> it.CreatorSelf, AttendeeStatus |-> AttendeeStatusOf(it),
     ConflictsWith |-> << >>]

\* the first loop of loadEvents: events without both instants are skipped
ParseItems(items) ==
    LET kept == SelectSeq(items, LAMBDA it : it.dt # "missing")
    IN  [k \in 1..Len(kept) |-> NewEventItem(kept[k])]

\* time.Parse fails on some kept item
UnparseableItem(items) ==
    \E k \in 1..Len(items) : items[k].dt = "bad"

AppendConflictsNoIdCheck(evs, i, j, acc) ==
    acc \o SelectSeq([k \in 1..(Len(evs) + 1 - j) |-> j + k - 1],
                     LAMBDA m : ~Declined(evs[m]) /\ intersectsWith(evs[i], evs[m]))

\* the inner loop of conflict detection for events[i], from ev2 = events[j] on;
\* ConflictsWith holds pointers, here positions in the same list
RECURSIVE AppendConflicts(_, _, _, _)
AppendConflicts(evs, i, j, acc) ==
    IF j > Len(evs) THEN acc
    ELSE IF Declined(evs[j]) \/ evs[i].Id = evs[j].Id \/ ~intersectsWith(evs[i], evs[j])
         THEN AppendConflicts(evs, i, j + 1, acc)
         ELSE AppendConflicts(evs, i, j + 1, Append(acc, j))

ConflictsOfKeepDeclined(evs, i) == AppendConflicts(evs, i, 1, evs[i].ConflictsWith)

ConflictsOf(evs, i) ==
    IF Declined(evs[i]) THEN evs[i].ConflictsWith
    ELSE AppendConflicts(evs, i, 1, evs[i].ConflictsWith)

DetectConflicts(evs) ==
    [i \in 1..Len(evs) |-> [evs[i] EXCEPT !.ConflictsWith = ConflictsOf(evs, i)]]

\* what loadEvents puts into eventsLoadedMsg
LoadedEvents(items) == DetectConflicts(ParseItems(items))

Range(s) == {s[k] : k \in 1..Len(s)}

Remove(s, k) == SubSeq(s, 1, k - 1) \o SubSeq(s, k + 1, Len(s))

\* ---------------------------------------------- the endpoint sweep variant

SetMin(S) == CHOOSE x \in S : \A y \in S : x <= y

\* one pass of "for times.TakeMin(&t)": events starting at t enter the open set,
\* events ending at t leave it, and if more than one is open each open event
\* is overbooked with the whole open set
RECURSIVE SweepTimes(_, _, _, _)
SweepTimes(evs, times, set, overbookedWith) ==
    IF times = {} THEN overbookedWith
    ELSE LET t == SetMin(times)
             eventsIn == {i \in 1..Len(evs) : ~Declined(evs[i]) /\ evs[i].Start = t}
             eventsOut == {i \in 1..Len(evs) : ~Declined(evs[i]) /\ evs[i].End = t}
             open == (set \cup eventsIn) \ eventsOut
             ob == IF Cardinality(open) > 1
                   THEN [i \in 1..Len(evs) |->
                           IF i \in open THEN overbookedWith[i] \cup open
                           ELSE overbookedWith[i]]
                   ELSE overbookedWith
         IN  SweepTimes(evs, times \ {t}, open, ob)

\* the overbooked events the variant reports for events[i]
SweepConflicts(evs, i) ==
    LET live == {k \in 1..Len(evs) : ~Declined(evs[k])}
        times == {evs[k].Start : k \in live} \cup {evs[k].End : k \in live}
        ob == SweepTimes(evs, times, {}, [k \in 1..Len(evs) |-> {}])
    IN  IF Declined(evs[i]) THEN {}
        ELSE {j \in ob[i] : j # i /\ ~Declined(evs[j])}

\* ------------------------------------------------- the events list delegate

isInterestingNoTentative(ev) ==
    ev.AttendeeStatus = "needsAction" \/ Len(ev.ConflictsWith) > 0

\* the test of "focus next interesting event"
isInteresting(ev) ==
    \/ ev.AttendeeStatus = "needsAction"
    \/ ev.AttendeeStatus = "tentative"
    \/ Len(ev.ConflictsWith) > 0

\* for j := i + 1; j < i+len(events); j++ (indices from 0)
RECURSIVE NextEventFrom(_, _, _)
NextEventFrom(evs, i, j) ==
    IF j < i + Len(evs)
    THEN IF isInteresting(evs[(j % Len(evs)) + 1]) THEN j % Len(evs)
         ELSE NextEventFrom(evs, i, j + 1)
    ELSE i

nextEventNoWrap(evs, i) ==
    IF \E j \in (i + 1)..(Len(evs) - 1) : isInteresting(evs[j + 1])
    THEN SetMin({j \in (i + 1)..(Len(evs) - 1) : isInteresting(evs[j + 1])})
    ELSE i

nextEvent(evs, i) == NextEventFrom(evs, i, i + 1)

\* ------------------------------------------------------------------ state

VARIABLES
    date,             \* model.date: an instant and the Location of the Time
    events,           \* model.events
    items,            \* the items of model.eventsList: pointers into events
    index,            \* the cursor of model.eventsList, from 0
    spinner,          \* model.eventsList shows its spinner
    uiMode,           \* model.uiMode
    inputDate,        \* the value of model.inputDate
    inputNote,        \* the value of model.inputNote
    selectedEventId,  \* model.selectedEventId
    errorMessage,     \* model.errorMessage
    cmds,             \* commands returned by Update whose goroutine has not finished
    msgs,             \* messages sent by commands that Update has not handled yet
    server,           \* the upstream calendar: day -> listing
    proc,             \* "running", or how the process ended: "quit", "fatal"
    clock,            \* the instant time.Now() returns
    zone,             \* the rules of time.Local
    boot,             \* main: its flags, its position and what it has computed
    auth,             \* getHTTPClient: its position, the token file and its results
    issued,           \* history: the commands started by keys so far
    last              \* history: what the step before this state did

vars == << date, events, items, index, spinner, uiMode, inputDate, inputNote,
           selectedEventId, errorMessage, cmds, msgs, server, proc, clock, zone,
           boot, auth, issued, last >>

NoOp == [op |-> "none", from |-> 0, st |-> "", note |-> "", live |-> FALSE]

\* instants are hours since midnight UTC of day 0, a Thursday
day == 24

\* a Location whose UTC offset is `before` until the instant `at` and `after`
\* from then on (a daylight-saving transition if they differ)
Zone(before, after, at) == [before |-> before, after |-> after, at |-> at]

\* the offset t.Zone() returns: of UTC, or of time.Local at that instant
ZoneOffset(loc, t) ==
    IF loc = "UTC" THEN 0
    ELSE IF t < zone.at THEN zone.before ELSE zone.after

\* the calendar day of t in its Location
FormatDay(t) == (t.t + ZoneOffset(t.loc, t.t)) \div day

\* the day on which the model starts
Today == 1

\* 09:00 UTC of day d
Morning(d) == d * day + 9

\* the rules time.Local may have: a fixed offset, or a transition at 02:00 of
\* day Today, clocks set back (the offset drops) or forward (it grows)
Zones ==
    {Zone(o, o, 0) : o \in (-MaxOffset)..MaxOffset}
        \cup {Zone(1, 0, Today * day + 1), Zone(0, 1, Today * day + 2)}

\* now.Add(tzOffset).Truncate(day).Add(-tzOffset), in time.Local
today ==
    LET tzOffset == ZoneOffset("Local", clock)
    IN  [t |-> ((clock + tzOffset) \div day) * day - tzOffset, loc |-> "Local"]

\* t.Add(n * day)
AddDays(t, n) == [t EXCEPT !.t = t.t + n * day]

FormatDateInUTC(t) == << "date", t.t \div day >>

\* t.Format("2006-01-02"): the calendar day in t's own Location
FormatDate(t) == << "date", FormatDay(t) >>

\* time.Parse("2006-01-02", s): midnight UTC of the day, or an error
ParseOk(s) == Len(s) = 2 /\ s[1] = "date"

ParseDate(s) == [t |-> s[2] * day, loc |-> "UTC"]

\* TimeMin(date) .. TimeMax(date + day): the events of a day lie in its working
\* hours, so the window holds those of the local day whose noon it contains
ListedDay(d) == (d.t + ZoneOffset("Local", d.t) + day \div 2) \div day

Listing(srv, d) == IF ListedDay(d) \in DOMAIN srv THEN srv[ListedDay(d)] ELSE << >>

\* ------------------------------------------ fetchEventsForDate (-format)

\* the first loop of fetchEventsForDate
fetchParseItems(its) ==
    LET kept == SelectSeq(its, LAMBDA it : it.dt # "missing")
    IN  [k \in 1..Len(kept) |->
            [Id |-> kept[k].Id, day |-> kept[k].day, Start |-> kept[k].Start,
             End |-> kept[k].End, Self |-> kept[k].Self,
             ResponseStatus |-> kept[k].ResponseStatus, Comment |-> kept[k].Comment,
             CreatorSelf |-> kept[k].CreatorSelf,
             AttendeeStatus |-> fetchAttendeeStatus(kept[k]),
             ConflictsWith |-> << >>]]

\* its conflict loop: the inner loop for events[i], from ev2 = events[j] on
RECURSIVE fetchAppendConflicts(_, _, _, _)
fetchAppendConflicts(evs, i, j, acc) ==
    IF j > Len(evs) THEN acc
    ELSE IF Declined(evs[j]) THEN fetchAppendConflicts(evs, i, j + 1, acc)
    ELSE IF evs[i].Id = evs[j].Id THEN fetchAppendConflicts(evs, i, j + 1, acc)
    ELSE IF intersectsWith(evs[i], evs[j])
         THEN fetchAppendConflicts(evs, i, j + 1, Append(acc, j))
         ELSE fetchAppendConflicts(evs, i, j + 1, acc)

fetchDetectConflicts(evs) ==
    [i \in 1..Len(evs) |->
        IF Declined(evs[i]) THEN evs[i]
        ELSE [evs[i] EXCEPT !.ConflictsWith =
                                fetchAppendConflicts(evs, i, 1, evs[i].ConflictsWith)]]

fetchEventsForDateNoConflicts(srv, d) ==
    IF UnparseableItem(Listing(srv, d))
    THEN [err |-> "parse error", events |-> << >>]
    ELSE [err |-> "", events |-> fetchParseItems(Listing(srv, d))]

\* fetchEventsForDate(date): the events and the error ("": nil) it returns
fetchEventsForDate(srv, d) ==
    IF UnparseableItem(Listing(srv, d))
    THEN [err |-> "parse error", events |-> << >>]
    ELSE [err |-> "", events |-> fetchDetectConflicts(fetchParseItems(Listing(srv, d)))]

\* the zero time.Time
ZeroTime == [t |-> 0, loc |-> "UTC"]

\* values of the -date flag: nothing; a sign, digits or none, and the rest of
\* the text; a day as YYYY-mm-dd; text that is none of these
DateArgs ==
    {<< >>, << "x" >>}
        \cup {<< "date", d >> : d \in Days}
        \cup {<< sg, ds, u >> : sg \in {"+", "-"},
                                ds \in {<< >>} \cup {<< n >> : n \in 0..MaxShift},
                                u \in {"", "d", "w"}}

\* fmt.Sscanf(arg, "%d%s", &n, &unit) on text that starts with a sign: %d takes the
\* sign with the digits, %s the rest, which must not be empty
Sscanf(arg) ==
    IF arg[2] = << >> THEN [err |-> TRUE, n |-> 0, unit |-> ""]
    ELSE IF arg[3] = "" THEN [err |-> TRUE, n |-> 0, unit |-> ""]
    ELSE [err |-> FALSE, n |-> IF arg[1] = "-" THEN 0 - arg[2][1] ELSE arg[2][1],
          unit |-> arg[3]]

\* parseDateArg(arg, base): the time and the error it returns ("": nil)
parseDateArg(arg, base) ==
    IF arg = << >> THEN [t |-> base, err |-> ""]
    ELSE IF arg[1] \in {"+", "-"}
    THEN LET sign == IF arg[1] = "+" THEN 1 ELSE 0 - 1
             sc == Sscanf(arg)
         IN  IF sc.err THEN [t |-> base, err |-> "invalid relative date"]
             ELSE IF sc.unit = "d" THEN [t |-> AddDays(base, sign * sc.n), err |-> ""]
             ELSE [t |-> base, err |-> "unsupported unit"]
    ELSE IF ParseOk(arg) THEN [t |-> ParseDate(arg), err |-> ""]
    ELSE [t |-> base, err |-> "invalid date"]

\* the cassette file named by -cassette-file: no name, a file that exists, or
\* a name without a file
CassetteFiles == {"", "existing", "missing"}

createOAuth2ClientNeverVCR(testMode, cassetteFile) ==
    IF testMode /\ cassetteFile = ""
    THEN [err |-> "cassette-file is required", transport |-> "none", mode |-> "none"]
    ELSE [err |-> "", transport |-> "oauth2", mode |-> "none"]

\* createOAuth2Client(config, testMode, cassetteFile): the error ("": nil), and
\* the Transport of the client with the Mode of the recorder
createOAuth2Client(testMode, cassetteFile) ==
    IF ~testMode THEN [err |-> "", transport |-> "oauth2", mode |-> "none"]
    ELSE IF cassetteFile = ""
    THEN [err |-> "cassette-file is required", transport |-> "none", mode |-> "none"]
    ELSE [err |-> "", transport |-> "recorder",
          mode |-> IF cassetteFile = "existing" THEN "replaying" ELSE "recording"]

\* ------------------------------------------------------ getHTTPClient

\* the tokens an authorization can yield, and the runs of the program
MaxTokens == 3
MaxRuns == 3

Tokens == {<< "token", t >> : t \in 1..MaxTokens}

\* the token file: not there, not decodable, or holding a token
TokenFiles == {<< "missing" >>, << "corrupt" >>} \cup Tokens

\* getHTTPClient is entered with this token file; the token and the client
\* are nil (<< >>), later a token and the client made of it
AuthStart(run, file) ==
    [pc |-> "restore", run |-> run, file0 |-> file, file |-> file, token |-> << >>,
     client |-> << >>, err |-> "", authorized |-> FALSE]

\* getHTTPClient is not called
NoAuth == [AuthStart(0, << "missing" >>) EXCEPT !.pc = "none"]

\* main has started the program: no -date flag, no test mode
Started ==
    [pc |-> "started", dateStr |-> << >>, testMode |-> FALSE, cassetteFile |-> "",
     client |-> createOAuth2Client(FALSE, ""), base |-> ZeroTime,
     showDate |-> [t |-> ZeroTime, err |-> ""]]

\* what the user types over the pre-filled date: a day, or no date at all
DateTexts == {<< "date", 0 >>, << "x" >>}

Notes == {"", "note"}

\* the event the list has selected, as a position in events (0: none)
SelectedItem == IF index < Len(items) THEN items[index + 1] ELSE 0

ItemEvents == [k \in 1..Len(items) |-> events[items[k]]]

\* ---------------------------------------------------- commands and messages

\* m.loadEvents, a method value: it holds the model, and so the date, of the
\* moment reloadEvents (or Init) built it
LoadCmd(d) == [kind |-> "loadEvents", date |-> d]

\* updateEventStatus(ev, status): ev points at events[i]. live says that
\* model.events still is the list the pointer leads into; snap is that list once
\* an eventsLoadedMsg has replaced it. st0 is history: the status at the key press
StatusCmdAccepted(i, status) ==
    [kind |-> "updateEventStatus", live |-> TRUE, snap |-> << >>, ev |-> i,
     status |-> "accepted", st0 |-> events[i].AttendeeStatus]

StatusCmd(i, status) ==
    [kind |-> "updateEventStatus", live |-> TRUE, snap |-> << >>, ev |-> i,
     status |-> status, st0 |-> events[i].AttendeeStatus]

FindEventAnyId(evs, id) == IF Len(evs) > 0 THEN 1 ELSE 0

\* the first event with this id in evs (0: none)
FindEvent(evs, id) ==
    IF \E k \in 1..Len(evs) : evs[k].Id = id
    THEN SetMin({k \in 1..Len(evs) : evs[k].Id = id})
    ELSE 0

\* m.updateEventNote(eventId, note): the closure holds the model and so m.events
\* of the moment "enter" was handled. note0 is history: the note at that moment
NoteCmd(id, note) ==
    [kind |-> "updateEventNote", live |-> TRUE, snap |-> << >>, eventId |-> id,
     note |-> note,
     note0 |-> IF FindEvent(events, id) = 0 THEN "" ELSE events[FindEvent(events, id)].Comment]

AddNoteCmd(id) == [kind |-> "addNoteToEvent", eventId |-> id]

\* the event list a command's pointers lead into
CmdEvents(c) == IF c.live THEN events ELSE c.snap

\* model.events is replaced: the commands still running keep the old list
Detach(c) ==
    IF c.kind \in {"updateEventStatus", "updateEventNote"} /\ c.live
    THEN [c EXCEPT !.live = FALSE, !.snap = events]
    ELSE c

\* a.ResponseStatus = status; ev.AttendeeStatus = status, for the Self attendee
SetStatus(ev, status) ==
    IF ev.Self THEN [ev EXCEPT !.ResponseStatus = status, !.AttendeeStatus = status]
    ELSE ev

\* a.Comment = note, for the Self attendee
SetComment(ev, note) ==
    IF ev.Self THEN [ev EXCEPT !.Comment = note] ELSE ev

\* Events.Patch("primary", id, {Attendees: ev.Attendees}) accepted upstream
PatchServer(srv, ev) ==
    [d \in DOMAIN srv |->
        [k \in 1..Len(srv[d]) |->
            IF srv[d][k].Id = ev.Id /\ ev.Self /\ srv[d][k].Self
            THEN [srv[d][k] EXCEPT !.ResponseStatus = ev.ResponseStatus,
                                   !.Comment = ev.Comment]
            ELSE srv[d][k]]]

\* ------------------------------------------------------------------- Init

InitModel(d) ==
    /\ date = d
    /\ events = << >>
    /\ items = << >>
    /\ index = 0
    /\ spinner = TRUE
    /\ uiMode = "default"
    /\ inputDate = << >>
    /\ inputNote = ""
    /\ selectedEventId = 0
    /\ errorMessage = ""
    /\ cmds = << LoadCmd(d) >>
    /\ msgs = << >>
    /\ proc = "running"
    /\ issued = 0
    /\ last = NoOp
    /\ boot = Started
    /\ auth = NoAuth

\* main with no -date flag, against the upstream calendar
Init ==
    /\ clock = Morning(Today)
    /\ zone = Zone(0, 0, 0)
    /\ InitModel(today)
    /\ server = [d \in Days |-> Upstream(d)]

\* one day of every small upstream listing
InitLoad ==
    /\ clock = Morning(0)
    /\ zone = Zone(0, 0, 0)
    /\ InitModel(today)
    /\ \/ \E n \in 0..MaxEvents : \E l \in [1..n -> RawChoices] :
             /\ SortedByStart(l)
             /\ server = [d \in Days |-> IF d = 0 THEN WithIds(l) ELSE << >>]
       \/ \E l \in {ScenarioDay(0), CreatorDay(0), QuietDay(0), BadDay(0), DuplicateDay(0)}
                      \cup ProfileDays(0) :
             server = [d \in Days |-> IF d = 0 THEN l ELSE << >>]

\* the navigation keys, on every day and under every rule of time.Local
InitDate ==
    /\ clock \in {Morning(d) : d \in Days}
    /\ zone \in Zones
    /\ InitModel(today)
    /\ server = [d \in Days |-> Upstream(d)]

\* the model before initModelWithDate: Go's zero values
ZeroModel ==
    /\ date = ZeroTime
    /\ events = << >>
    /\ items = << >>
    /\ index = 0
    /\ spinner = FALSE
    /\ uiMode = "default"
    /\ inputDate = << >>
    /\ inputNote = ""
    /\ selectedEventId = 0
    /\ errorMessage = ""
    /\ cmds = << >>
    /\ msgs = << >>
    /\ proc = "main"
    /\ issued = 0
    /\ last = NoOp

\* main before the program starts, with every value of its flags
InitMain ==
    /\ clock \in {Morning(d) : d \in Days}
    /\ zone \in Zones
    /\ server = [d \in Days |-> Upstream(d)]
    /\ \E a \in DateArgs, tm \in BOOLEAN, cf \in CassetteFiles :
          boot = [Started EXCEPT !.pc = "flags", !.dateStr = a, !.testMode = tm,
                                 !.cassetteFile = cf,
                                 !.client = [err |-> "", transport |-> "none", mode |-> "none"]]
    /\ auth = NoAuth
    /\ ZeroModel

\* main without test mode, on the morning of day Today in a zone without offset
InitStart ==
    /\ InitMain
    /\ clock = Morning(Today)
    /\ zone = Zone(0, 0, 0)
    /\ ~boot.testMode
    /\ boot.cassetteFile = ""

\* the first run of getGoogleOAuthClient, with any token file
InitAuth ==
    /\ clock = Morning(Today)
    /\ zone = Zone(0, 0, 0)
    /\ server = [d \in Days |-> Upstream(d)]
    /\ boot = [Started EXCEPT !.pc = "flags"]
    /\ auth \in {AuthStart(1, f) : f \in TokenFiles}
    /\ ZeroModel

\* ---------------------------------------------------------- getHTTPClient

AuthStep(a) ==
    /\ auth' = a
    /\ last' = NoOp
    /\ UNCHANGED << date, events, items, index, spinner, uiMode, inputDate, inputNote,
                    selectedEventId, errorMessage, cmds, msgs, server, proc, clock, zone,
                    boot, issued >>

restoreTokenAlwaysFails ==
    /\ auth.pc = "restore"
    /\ AuthStep([auth EXCEPT !.pc = "authorize"])

\* token, err := restoreToken(): os.Open or Decode fails unless the file holds
\* a token
restoreToken ==
    /\ auth.pc = "restore"
    /\ AuthStep(IF auth.file \in Tokens
                THEN [auth EXCEPT !.pc = "client", !.token = auth.file]
                ELSE [auth EXCEPT !.pc = "authorize"])

\* token, err = doAuthorization(config): the user authorizes and the exchange
\* yields a token
doAuthorization(t) ==
    /\ auth.pc = "authorize"
    /\ AuthStep([auth EXCEPT !.pc = "store", !.token = t, !.authorized = TRUE])

\* config.Exchange fails: return nil, err
doAuthorizationFails ==
    /\ auth.pc = "authorize"
    /\ AuthStep([auth EXCEPT !.pc = "failed", !.token = << >>, !.authorized = TRUE,
                             !.err = "authorization"])

\* err = storeToken(token): the file is created or truncated and the token
\* encoded into it
storeToken ==
    /\ auth.pc = "store"
    /\ AuthStep([auth EXCEPT !.pc = "client", !.file = auth.token])

\* storeToken fails: in MkdirAll or OpenFile, the file as it was, or in Encode,
\* the file truncated; return nil, err
storeTokenFails(f) ==
    /\ auth.pc = "store"
    /\ f \in {auth.file, << "corrupt" >>}
    /\ AuthStep([auth EXCEPT !.pc = "failed", !.file = f, !.err = "store"])

\* return config.Client(context.Background(), token), nil
ReturnClient ==
    /\ auth.pc = "client"
    /\ AuthStep([auth EXCEPT !.pc = "done", !.client = auth.token])

\* the program is run again, with the token file the run before left
RunAgain ==
    /\ auth.pc \in {"done", "failed"}
    /\ auth.run < MaxRuns
    /\ AuthStep(AuthStart(auth.run + 1, auth.file))

\* ------------------------------------------------------------------- main

MainStep(b, p) ==
    /\ boot' = b
    /\ proc' = p
    /\ last' = NoOp
    /\ UNCHANGED << date, events, items, index, spinner, uiMode, inputDate, inputNote,
                    selectedEventId, errorMessage, cmds, msgs, server, clock, zone,
                    auth, issued >>

\* the client is created; an error is log.Fatal
MainCreateClient ==
    LET c == createOAuth2Client(boot.testMode, boot.cassetteFile)
    IN  /\ proc = "main" /\ boot.pc = "flags"
        /\ MainStep([boot EXCEPT !.client = c,
                                 !.pc = IF c.err = "" THEN "client" ELSE "fatal"],
                    IF c.err = "" THEN "main" ELSE "fatal")

\* base := today(); showDate, err := parseDateArg(dateStr, base); an error is
\* log.Fatalf
MainParseDate ==
    LET r == parseDateArg(boot.dateStr, today)
    IN  /\ proc = "main" /\ boot.pc = "client"
        /\ MainStep([boot EXCEPT !.base = today, !.showDate = r,
                                 !.pc = IF r.err = "" THEN "parsed" ELSE "fatal"],
                    IF r.err = "" THEN "main" ELSE "fatal")

MainStartToday ==
    /\ proc = "main" /\ boot.pc = "parsed"
    /\ boot' = [boot EXCEPT !.pc = "started"]
    /\ proc' = "running"
    /\ date' = today
    /\ spinner' = TRUE
    /\ cmds' = << LoadCmd(today) >>
    /\ last' = NoOp
    /\ UNCHANGED << events, items, index, uiMode, inputDate, inputNote, selectedEventId,
                    errorMessage, msgs, server, clock, zone, auth, issued >>

\* tea.NewProgram(initModelWithDate(showDate)), prog.Start()
MainStart ==
    /\ proc = "main" /\ boot.pc = "parsed"
    /\ boot' = [boot EXCEPT !.pc = "started"]
    /\ proc' = "running"
    /\ date' = boot.showDate.t
    /\ spinner' = TRUE
    /\ cmds' = << LoadCmd(boot.showDate.t) >>
    /\ last' = NoOp
    /\ UNCHANGED << events, items, index, uiMode, inputDate, inputNote, selectedEventId,
                    errorMessage, msgs, server, clock, zone, auth, issued >>

\* ------------------------------------------------- Update: key messages

DefaultKey == proc = "running" /\ uiMode = "default"

\* the process ends, and with it the goroutines of its commands
KeyQuit ==
    /\ DefaultKey
    /\ proc' = "quit"
    /\ cmds' = << >>
    /\ msgs' = << >>
    /\ UNCHANGED << clock, zone, boot, auth >>
    /\ last' = NoOp
    /\ UNCHANGED issued
    /\ UNCHANGED << date, events, items, index, spinner, uiMode, inputDate, inputNote,
                    selectedEventId, errorMessage, server >>

reloadEvents(d) ==
    /\ date' = d
    /\ spinner' = TRUE
    /\ items' = << >>
    /\ cmds' = Append(cmds, LoadCmd(d))
    /\ UNCHANGED << clock, zone, boot, auth >>
    /\ last' = NoOp
    /\ issued' = issued + 1
    /\ UNCHANGED << events, index, inputDate, inputNote, selectedEventId, errorMessage,
                    msgs, server, proc >>

KeyGotoToday ==
    /\ DefaultKey /\ issued < MaxCommands
    /\ reloadEvents(today)
    /\ UNCHANGED uiMode

KeyReload ==
    /\ DefaultKey /\ issued < MaxCommands
    /\ reloadEvents(date)
    /\ UNCHANGED uiMode

KeyNextDay ==
    /\ DefaultKey /\ issued < MaxCommands
    /\ FormatDay(AddDays(date, 1)) \in Days
    /\ reloadEvents(AddDays(date, 1))
    /\ UNCHANGED uiMode

KeyPrevDay ==
    /\ DefaultKey /\ issued < MaxCommands
    /\ FormatDay(AddDays(date, -1)) \in Days
    /\ reloadEvents(AddDays(date, -1))
    /\ UNCHANGED uiMode

\* shift+right, shift+left: no case of handleDefaultModeKeyMsg matches, it
\* returns no command, and the list has no binding for the key either
KeyUnbound(k) ==
    /\ DefaultKey
    /\ UNCHANGED << clock, zone, boot, auth >>
    /\ last' = [NoOp EXCEPT !.op = k]
    /\ UNCHANGED issued
    /\ UNCHANGED << date, events, items, index, spinner, uiMode, inputDate, inputNote,
                    selectedEventId, errorMessage, cmds, msgs, server, proc >>

KeyShiftRight == KeyUnbound("shift+right")

KeyShiftLeft == KeyUnbound("shift+left")

enterJumpToDayMode ==
    /\ errorMessage' = ""
    /\ uiMode' = "inputDate"
    /\ inputDate' = FormatDate(date)
    /\ UNCHANGED << clock, zone, boot, auth >>
    /\ last' = NoOp
    /\ UNCHANGED issued
    /\ UNCHANGED << date, events, items, index, spinner, inputNote, selectedEventId,
                    cmds, msgs, server, proc >>

KeyJumpToDay == DefaultKey /\ enterJumpToDayMode

\* keys handleDefaultModeKeyMsg leaves to eventsList.Update: the list moves its
\* cursor, then the delegate acts on the selected item
CursorDown ==
    /\ DefaultKey
    /\ index < Len(items) - 1
    /\ index' = index + 1
    /\ UNCHANGED << clock, zone, boot, auth >>
    /\ last' = NoOp
    /\ UNCHANGED issued
    /\ UNCHANGED << date, events, items, spinner, uiMode, inputDate, inputNote,
                    selectedEventId, errorMessage, cmds, msgs, server, proc >>

CursorUp ==
    /\ DefaultKey
    /\ index > 0
    /\ index' = index - 1
    /\ UNCHANGED << clock, zone, boot, auth >>
    /\ last' = NoOp
    /\ UNCHANGED issued
    /\ UNCHANGED << date, events, items, spinner, uiMode, inputDate, inputNote,
                    selectedEventId, errorMessage, cmds, msgs, server, proc >>

KeyNextEvent ==
    /\ DefaultKey
    /\ SelectedItem # 0
    /\ index' = nextEvent(ItemEvents, index)
    /\ UNCHANGED << clock, zone, boot, auth >>
    /\ last' = [NoOp EXCEPT !.op = "nextEvent", !.from = index]
    /\ UNCHANGED issued
    /\ UNCHANGED << date, events, items, spinner, uiMode, inputDate, inputNote,
                    selectedEventId, errorMessage, cmds, msgs, server, proc >>

KeyStatus(status) ==
    /\ DefaultKey /\ issued < MaxCommands
    /\ SelectedItem # 0
    /\ spinner' = TRUE
    /\ cmds' = Append(cmds, StatusCmd(SelectedItem, status))
    /\ UNCHANGED << clock, zone, boot, auth >>
    /\ last' = NoOp
    /\ issued' = issued + 1
    /\ UNCHANGED << date, events, items, index, uiMode, inputDate, inputNote,
                    selectedEventId, errorMessage, msgs, server, proc >>

KeyAcceptEvent == KeyStatus("accepted")

KeyDeclineEvent == KeyStatus("declined")

\* ev.HtmlLink: the link upstream gives the event, one per event id
HtmlLink(ev) == ev.Id

\* what open.Start was called with is kept in last
Opened(link) == [NoOp EXCEPT !.op = "openInBrowser", !.from = link]

KeyOpenInBrowserFirst ==
    /\ DefaultKey
    /\ SelectedItem # 0
    /\ UNCHANGED << clock, zone, boot, auth >>
    /\ last' = Opened(HtmlLink(events[items[1]]))
    /\ UNCHANGED issued
    /\ UNCHANGED << date, events, items, index, spinner, uiMode, inputDate, inputNote,
                    selectedEventId, errorMessage, cmds, msgs, server, proc >>

\* open.Start(ev.HtmlLink) for the selected item; the command returned shows a
\* status line in the list
KeyOpenInBrowser ==
    /\ DefaultKey
    /\ SelectedItem # 0
    /\ UNCHANGED << clock, zone, boot, auth >>
    /\ last' = Opened(HtmlLink(events[SelectedItem]))
    /\ UNCHANGED issued
    /\ UNCHANGED << date, events, items, index, spinner, uiMode, inputDate, inputNote,
                    selectedEventId, errorMessage, cmds, msgs, server, proc >>

KeyAddNote ==
    /\ DefaultKey /\ issued < MaxCommands
    /\ SelectedItem # 0
    /\ cmds' = Append(cmds, AddNoteCmd(events[SelectedItem].Id))
    /\ UNCHANGED << clock, zone, boot, auth >>
    /\ last' = NoOp
    /\ issued' = issued + 1
    /\ UNCHANGED << date, events, items, index, spinner, uiMode, inputDate, inputNote,
                    selectedEventId, errorMessage, msgs, server, proc >>

\* a key other than "enter" in an input mode goes to the text input
TypeDate(t) ==
    /\ proc = "running" /\ uiMode = "inputDate"
    /\ t # inputDate
    /\ inputDate' = t
    /\ UNCHANGED << clock, zone, boot, auth >>
    /\ last' = NoOp
    /\ UNCHANGED issued
    /\ UNCHANGED << date, events, items, index, spinner, uiMode, inputNote,
                    selectedEventId, errorMessage, cmds, msgs, server, proc >>

\* a key other than enter in an input mode: Update has no case for it and
\* passes it to the text input, which has no binding for esc or ctrl+c
KeyInputUnhandled(k) ==
    /\ proc = "running" /\ uiMode \in {"inputDate", "inputNote"}
    /\ UNCHANGED << clock, zone, boot, auth >>
    /\ last' = [NoOp EXCEPT !.op = k]
    /\ UNCHANGED issued
    /\ UNCHANGED << date, events, items, index, spinner, uiMode, inputDate, inputNote,
                    selectedEventId, errorMessage, cmds, msgs, server, proc >>

KeyInputEsc == KeyInputUnhandled("esc")

\* the keys of Browsing: appKeys, and q of handleDefaultModeKeyMsg
BrowsingKeys == {"tab", "A", "D", "o", "t", "R", "right", "left", "q"}

\* those that are runes for a text input
Runes == {"A", "D", "o", "t", "R", "q"}

\* a rune in an input mode goes to the text input of the mode: the date field
\* takes it unless its CharLimit is reached, and then holds no date; the note
\* field takes it
TypeRune(k) ==
    /\ proc = "running" /\ uiMode \in {"inputDate", "inputNote"}
    /\ IF uiMode = "inputDate"
       THEN inputDate' \in {inputDate, << "x" >>} /\ UNCHANGED inputNote
       ELSE inputNote' = "note" /\ UNCHANGED inputDate
    /\ UNCHANGED << clock, zone, boot, auth >>
    /\ last' = [NoOp EXCEPT !.op = k]
    /\ UNCHANGED issued
    /\ UNCHANGED << date, events, items, index, spinner, uiMode, selectedEventId,
                    errorMessage, cmds, msgs, server, proc >>

KeyInInputLeaving(k) ==
    /\ proc = "running" /\ uiMode \in {"inputDate", "inputNote"}
    /\ uiMode' = "default"
    /\ UNCHANGED << clock, zone, boot, auth >>
    /\ last' = [NoOp EXCEPT !.op = k]
    /\ UNCHANGED issued
    /\ UNCHANGED << date, events, items, index, spinner, inputDate, inputNote,
                    selectedEventId, errorMessage, cmds, msgs, server, proc >>

\* a key of Browsing pressed in an input mode
KeyInInput(k) == IF k \in Runes THEN TypeRune(k) ELSE KeyInputUnhandled(k)

KeyInputCtrlC == KeyInputUnhandled("ctrl+c")

TypeNote(n) ==
    /\ proc = "running" /\ uiMode = "inputNote"
    /\ n # inputNote
    /\ inputNote' = n
    /\ UNCHANGED << clock, zone, boot, auth >>
    /\ last' = NoOp
    /\ UNCHANGED issued
    /\ UNCHANGED << date, events, items, index, spinner, uiMode, inputDate,
                    selectedEventId, errorMessage, cmds, msgs, server, proc >>

EnterDateClosesOnError ==
    /\ proc = "running" /\ uiMode = "inputDate"
    /\ IF ParseOk(inputDate)
       THEN /\ issued < MaxCommands
            /\ uiMode' = "default"
            /\ reloadEvents(ParseDate(inputDate))
       ELSE /\ errorMessage' = "parse error"
            /\ uiMode' = "default"
            /\ UNCHANGED << clock, zone, boot, auth >>
            /\ last' = NoOp
            /\ UNCHANGED issued
            /\ UNCHANGED << date, events, items, index, spinner, inputDate,
                            inputNote, selectedEventId, cmds, msgs, server, proc >>

\* "enter" in uiModeInputDate
EnterDate ==
    /\ proc = "running" /\ uiMode = "inputDate"
    /\ IF ParseOk(inputDate)
       THEN /\ issued < MaxCommands
            /\ uiMode' = "default"
            /\ reloadEvents(ParseDate(inputDate))
       ELSE /\ errorMessage' = "parse error"
            /\ UNCHANGED << clock, zone, boot, auth >>
            /\ last' = NoOp
            /\ UNCHANGED issued
            /\ UNCHANGED << date, events, items, index, spinner, uiMode, inputDate,
                            inputNote, selectedEventId, cmds, msgs, server, proc >>

\* "enter" in uiModeInputNote
EnterNote ==
    /\ proc = "running" /\ uiMode = "inputNote"
    /\ issued < MaxCommands
    /\ uiMode' = "default"
    /\ spinner' = TRUE
    /\ cmds' = Append(cmds, NoteCmd(selectedEventId, inputNote))
    /\ UNCHANGED << clock, zone, boot, auth >>
    /\ last' = NoOp
    /\ issued' = issued + 1
    /\ UNCHANGED << date, events, items, index, inputDate, inputNote, selectedEventId,
                    errorMessage, msgs, server, proc >>

\* ------------------------------------------- commands, each in its goroutine

RunLoadEvents(k) ==
    /\ proc = "running"
    /\ cmds[k].kind = "loadEvents"
    /\ ~UnparseableItem(Listing(server, cmds[k].date))
    /\ msgs' = Append(msgs, [kind |-> "eventsLoadedMsg",
                             events |-> LoadedEvents(Listing(server, cmds[k].date))])
    /\ cmds' = Remove(cmds, k)
    /\ UNCHANGED << clock, zone, boot, auth >>
    /\ last' = NoOp
    /\ UNCHANGED issued
    /\ UNCHANGED << date, events, items, index, spinner, uiMode, inputDate, inputNote,
                    selectedEventId, errorMessage, server, proc >>

LoadFatal ==
    /\ proc' = "fatal"
    /\ cmds' = << >>
    /\ msgs' = << >>
    /\ UNCHANGED << clock, zone, boot, auth >>
    /\ last' = NoOp
    /\ UNCHANGED issued
    /\ UNCHANGED << date, events, items, index, spinner, uiMode, inputDate, inputNote,
                    selectedEventId, errorMessage, server >>

\* time.Parse fails on the Start or End of an item: log.Fatalf
RunLoadEventsBadTime(k) ==
    /\ proc = "running"
    /\ cmds[k].kind = "loadEvents"
    /\ UnparseableItem(Listing(server, cmds[k].date))
    /\ LoadFatal

\* calendar.NewService or the list call fails: log.Fatalf
RunLoadEventsFatal(k) ==
    /\ proc = "running"
    /\ cmds[k].kind = "loadEvents"
    /\ LoadFatal

\* the event list after the command has written through its pointer
Written(c, i, ev) == IF c.live THEN [events EXCEPT ![i] = ev] ELSE events

RunUpdateEventStatus(k) ==
    LET c == cmds[k]
        ev == SetStatus(CmdEvents(c)[c.ev], c.status)
    IN  /\ proc = "running"
        /\ c.kind = "updateEventStatus"
        /\ events' = Written(c, c.ev, ev)
        /\ server' = PatchServer(server, ev)
        /\ msgs' = Append(msgs, [kind |-> "eventUpdatedMsg"])
        /\ cmds' = Remove(cmds, k)
        /\ UNCHANGED << clock, zone, boot, auth >>
        /\ last' = NoOp
        /\ UNCHANGED issued
        /\ UNCHANGED << date, items, index, spinner, uiMode, inputDate, inputNote,
                        selectedEventId, errorMessage, proc >>

\* the patch call fails: log.Fatalf, after the event was written
RunUpdateEventStatusFatal(k) ==
    LET c == cmds[k]
        ev == SetStatus(CmdEvents(c)[c.ev], c.status)
    IN  /\ proc = "running"
        /\ c.kind = "updateEventStatus"
        /\ events' = Written(c, c.ev, ev)
        /\ proc' = "fatal"
        /\ cmds' = << >>
        /\ msgs' = << >>
        /\ UNCHANGED << clock, zone, boot, auth >>
        /\ last' = [NoOp EXCEPT !.op = "statusPatchFailed", !.from = c.ev,
                                !.st = c.st0, !.live = c.live]
        /\ UNCHANGED issued
        /\ UNCHANGED << date, items, index, spinner, uiMode, inputDate, inputNote,
                        selectedEventId, errorMessage, server >>

RunUpdateEventNoteNotFoundFatal(k) ==
    LET c == cmds[k]
    IN  /\ proc = "running"
        /\ c.kind = "updateEventNote"
        /\ FindEvent(CmdEvents(c), c.eventId) = 0
        /\ proc' = "fatal"
        /\ msgs' = << >>
        /\ cmds' = << >>
        /\ UNCHANGED << clock, zone, boot, auth >>
        /\ last' = NoOp
        /\ UNCHANGED issued
        /\ UNCHANGED << date, events, items, index, spinner, uiMode, inputDate, inputNote,
                        selectedEventId, errorMessage, server >>

\* the event is not in m.events: no patch, a non-fatal error
RunUpdateEventNoteNotFound(k) ==
    LET c == cmds[k]
    IN  /\ proc = "running"
        /\ c.kind = "updateEventNote"
        /\ FindEvent(CmdEvents(c), c.eventId) = 0
        /\ msgs' = Append(msgs, [kind |-> "nonFatalErrorMsg",
                                 errorMessage |-> "Event not found", hist |-> NoOp])
        /\ cmds' = Remove(cmds, k)
        /\ UNCHANGED << clock, zone, boot, auth >>
        /\ last' = NoOp
        /\ UNCHANGED issued
        /\ UNCHANGED << date, events, items, index, spinner, uiMode, inputDate, inputNote,
                        selectedEventId, errorMessage, server, proc >>

RunUpdateEventNote(k) ==
    LET c == cmds[k]
        i == FindEvent(CmdEvents(c), c.eventId)
        ev == SetComment(CmdEvents(c)[i], c.note)
    IN  /\ proc = "running"
        /\ c.kind = "updateEventNote"
        /\ i # 0
        /\ events' = Written(c, i, ev)
        /\ server' = PatchServer(server, ev)
        /\ msgs' = Append(msgs, [kind |-> "eventUpdatedMsg"])
        /\ cmds' = Remove(cmds, k)
        /\ UNCHANGED << clock, zone, boot, auth >>
        /\ last' = NoOp
        /\ UNCHANGED issued
        /\ UNCHANGED << date, items, index, spinner, uiMode, inputDate, inputNote,
                        selectedEventId, errorMessage, proc >>

\* the patch call fails, after the event was written
RunUpdateEventNoteFail(k) ==
    LET c == cmds[k]
        i == FindEvent(CmdEvents(c), c.eventId)
        ev == SetComment(CmdEvents(c)[i], c.note)
    IN  /\ proc = "running"
        /\ c.kind = "updateEventNote"
        /\ i # 0
        /\ events' = Written(c, i, ev)
        /\ msgs' = Append(msgs,
              [kind |-> "nonFatalErrorMsg", errorMessage |-> "Failed to update note",
               hist |-> [NoOp EXCEPT !.op = "notePatchFailed", !.from = i,
                                     !.note = c.note0, !.live = c.live]])
        /\ cmds' = Remove(cmds, k)
        /\ UNCHANGED << clock, zone, boot, auth >>
        /\ last' = NoOp
        /\ UNCHANGED issued
        /\ UNCHANGED << date, items, index, spinner, uiMode, inputDate, inputNote,
                        selectedEventId, errorMessage, server, proc >>

RunAddNoteToEvent(k) ==
    /\ proc = "running"
    /\ cmds[k].kind = "addNoteToEvent"
    /\ msgs' = Append(msgs, [kind |-> "addNoteMsg", eventId |-> cmds[k].eventId])
    /\ cmds' = Remove(cmds, k)
    /\ UNCHANGED << clock, zone, boot, auth >>
    /\ last' = NoOp
    /\ UNCHANGED issued
    /\ UNCHANGED << date, events, items, index, spinner, uiMode, inputDate, inputNote,
                    selectedEventId, errorMessage, server, proc >>

\* ------------------------------------------- Update: the commands' messages

UpdateEventsLoadedMerging(k) ==
    /\ proc = "running"
    /\ msgs[k].kind = "eventsLoadedMsg"
    /\ events' = [i \in 1..Len(msgs[k].events) |->
                     IF i <= Len(events) /\ events[i].Id = msgs[k].events[i].Id
                     THEN [msgs[k].events[i] EXCEPT
                              !.ConflictsWith = events[i].ConflictsWith \o @]
                     ELSE msgs[k].events[i]]
    /\ spinner' = FALSE
    /\ items' = [i \in 1..Len(msgs[k].events) |-> i]
    /\ cmds' = [j \in 1..Len(cmds) |-> Detach(cmds[j])]
    /\ msgs' = Remove(msgs, k)
    /\ UNCHANGED << clock, zone, boot, auth >>
    /\ last' = NoOp
    /\ UNCHANGED issued
    /\ UNCHANGED << date, index, uiMode, inputDate, inputNote, selectedEventId,
                    errorMessage, server, proc >>

UpdateEventsLoaded(k) ==
    /\ proc = "running"
    /\ msgs[k].kind = "eventsLoadedMsg"
    /\ events' = msgs[k].events
    /\ spinner' = FALSE
    /\ items' = [i \in 1..Len(msgs[k].events) |-> i]
    /\ cmds' = [j \in 1..Len(cmds) |-> Detach(cmds[j])]
    /\ msgs' = Remove(msgs, k)
    /\ UNCHANGED << clock, zone, boot, auth >>
    /\ last' = NoOp
    /\ UNCHANGED issued
    /\ UNCHANGED << date, index, uiMode, inputDate, inputNote, selectedEventId,
                    errorMessage, server, proc >>

UpdateEventUpdated(k) ==
    /\ proc = "running"
    /\ msgs[k].kind = "eventUpdatedMsg"
    /\ spinner' = FALSE
    /\ msgs' = Remove(msgs, k)
    /\ UNCHANGED << clock, zone, boot, auth >>
    /\ last' = NoOp
    /\ UNCHANGED issued
    /\ UNCHANGED << date, events, items, index, uiMode, inputDate, inputNote,
                    selectedEventId, errorMessage, cmds, server, proc >>

ExistingNoteOfFirst(id) ==
    IF Len(events) > 0 /\ events[1].Self THEN events[1].Comment ELSE ""

\* the note of the viewer's own attendee entry of the event with this id
ExistingNote(id) ==
    LET i == FindEvent(events, id)
    IN  IF i # 0 /\ events[i].Self THEN events[i].Comment ELSE ""

\* addNoteMsg: enterNoteInputMode(msg.eventId)
UpdateAddNote(k) ==
    /\ proc = "running"
    /\ msgs[k].kind = "addNoteMsg"
    /\ errorMessage' = ""
    /\ uiMode' = "inputNote"
    /\ selectedEventId' = msgs[k].eventId
    /\ inputNote' = ExistingNote(msgs[k].eventId)
    /\ msgs' = Remove(msgs, k)
    /\ UNCHANGED << clock, zone, boot, auth >>
    /\ last' = NoOp
    /\ UNCHANGED issued
    /\ UNCHANGED << date, events, items, index, spinner, inputDate, cmds, server, proc >>

UpdateNonFatalError(k) ==
    /\ proc = "running"
    /\ msgs[k].kind = "nonFatalErrorMsg"
    /\ errorMessage' = msgs[k].errorMessage
    /\ msgs' = Remove(msgs, k)
    /\ UNCHANGED << clock, zone, boot, auth >>
    /\ last' = msgs[k].hist
    /\ UNCHANGED issued
    /\ UNCHANGED << date, events, items, index, spinner, uiMode, inputDate, inputNote,
                    selectedEventId, cmds, server, proc >>

\* ------------------------------------------------------------ specifications

Next ==
    \/ KeyQuit
    \/ KeyGotoToday
    \/ KeyReload
    \/ KeyNextDay
    \/ KeyPrevDay
    \/ KeyJumpToDay
    \/ CursorDown
    \/ CursorUp
    \/ KeyNextEvent
    \/ KeyAcceptEvent
    \/ KeyDeclineEvent
    \/ KeyAddNote
    \/ \E t \in DateTexts : TypeDate(t)
    \/ \E n \in Notes : TypeNote(n)
    \/ EnterDate
    \/ EnterNote
    \/ \E k \in 1..Len(cmds) : RunLoadEvents(k)
    \/ \E k \in 1..Len(cmds) : RunLoadEventsFatal(k)
    \/ \E k \in 1..Len(cmds) : RunUpdateEventStatus(k)
    \/ \E k \in 1..Len(cmds) : RunUpdateEventStatusFatal(k)
    \/ \E k \in 1..Len(cmds) : RunUpdateEventNoteNotFound(k)
    \/ \E k \in 1..Len(cmds) : RunUpdateEventNote(k)
    \/ \E k \in 1..Len(cmds) : RunUpdateEventNoteFail(k)
    \/ \E k \in 1..Len(cmds) : RunAddNoteToEvent(k)
    \/ \E k \in 1..Len(msgs) : UpdateEventsLoaded(k)
    \/ \E k \in 1..Len(msgs) : UpdateEventUpdated(k)
    \/ \E k \in 1..Len(msgs) : UpdateAddNote(k)
    \/ \E k \in 1..Len(msgs) : UpdateNonFatalError(k)

Spec == Init /\ [][Next]_vars

\* one day loaded and browsed, for every small upstream listing
NextLoad ==
    \/ \E k \in 1..Len(cmds) : RunLoadEvents(k)
    \/ \E k \in 1..Len(cmds) : RunLoadEventsBadTime(k)
    \/ \E k \in 1..Len(msgs) : UpdateEventsLoaded(k)
    \/ CursorDown
    \/ CursorUp
    \/ KeyNextEvent
    \/ KeyOpenInBrowser

SpecLoad == InitLoad /\ [][NextLoad]_vars

\* main from its flags to the start of the program
NextMain ==
    \/ MainCreateClient
    \/ MainParseDate
    \/ MainStart

SpecMain == InitMain /\ [][NextMain]_vars

\* getHTTPClient, run after run
NextAuth ==
    \/ restoreToken
    \/ \E t \in Tokens : doAuthorization(t)
    \/ doAuthorizationFails
    \/ storeToken
    \/ \E f \in TokenFiles : storeTokenFails(f)
    \/ ReturnClient
    \/ RunAgain

SpecAuth == InitAuth /\ [][NextAuth]_vars

\* main, the first load and the ways into the two input modes; the user starts
\* at most two commands
NextStart ==
    \/ NextMain
    \/ \E k \in 1..Len(cmds) : RunLoadEvents(k)
    \/ \E k \in 1..Len(msgs) : UpdateEventsLoaded(k)
    \/ KeyJumpToDay
    \/ issued < 2 /\ EnterDate
    \/ issued < 2 /\ KeyAddNote
    \/ \E k \in 1..Len(cmds) : RunAddNoteToEvent(k)
    \/ \E k \in 1..Len(msgs) : UpdateAddNote(k)
    \/ \E k \in BrowsingKeys : KeyInInput(k)

SpecStart == InitStart /\ [][NextStart]_vars

\* the keys that set the date; the commands they start stay pending
NextDate ==
    \/ KeyGotoToday
    \/ KeyReload
    \/ KeyNextDay
    \/ KeyPrevDay
    \/ KeyShiftRight
    \/ KeyShiftLeft
    \/ KeyJumpToDay
    \/ \E t \in DateTexts : TypeDate(t)
    \/ KeyInputEsc
    \/ KeyInputCtrlC
    \/ EnterDate
    \/ KeyQuit

SpecDate == InitDate /\ [][NextDate]_vars

\* the note keys on the loaded days, with the reloads that replace the events
\* while a note is being entered
NextNote ==
    \/ KeyReload
    \/ KeyNextDay
    \/ CursorDown
    \/ CursorUp
    \/ KeyAddNote
    \/ \E n \in Notes : TypeNote(n)
    \/ EnterNote
    \/ \E k \in 1..Len(cmds) : RunLoadEvents(k)
    \/ \E k \in 1..Len(cmds) : RunUpdateEventNoteNotFound(k)
    \/ \E k \in 1..Len(cmds) : RunUpdateEventNote(k)
    \/ \E k \in 1..Len(cmds) : RunUpdateEventNoteFail(k)
    \/ \E k \in 1..Len(cmds) : RunAddNoteToEvent(k)
    \/ \E k \in 1..Len(msgs) : UpdateEventsLoaded(k)
    \/ \E k \in 1..Len(msgs) : UpdateEventUpdated(k)
    \/ \E k \in 1..Len(msgs) : UpdateAddNote(k)
    \/ \E k \in 1..Len(msgs) : UpdateNonFatalError(k)

SpecNote == Init /\ [][NextNote]_vars

\* accepting and declining, with the loads and the cursor keys around them
NextStatus ==
    \/ KeyReload
    \/ KeyNextDay
    \/ CursorDown
    \/ CursorUp
    \/ KeyNextEvent
    \/ KeyAcceptEvent
    \/ KeyDeclineEvent
    \/ \E k \in 1..Len(cmds) : RunLoadEvents(k)
    \/ \E k \in 1..Len(cmds) : RunUpdateEventStatus(k)
    \/ \E k \in 1..Len(cmds) : RunUpdateEventStatusFatal(k)
    \/ \E k \in 1..Len(msgs) : UpdateEventsLoaded(k)
    \/ \E k \in 1..Len(msgs) : UpdateEventUpdated(k)

SpecStatus == Init /\ [][NextStatus]_vars

\* ------------------------------------------------------------------ claims

ConflictSet(i) == Range(events[i].ConflictsWith)

ValidInterval(e) == e.Start < e.End

\* C1: after a load, two non-declined events with different ids and non-empty
\* intervals conflict exactly when neither ends at or before the start of the
\* other; the relation is symmetric; back-to-back events do not conflict
C1_ConflictIffOverlap ==
    \A i, j \in 1..Len(events) :
        ( /\ ~Declined(events[i]) /\ ~Declined(events[j])
          /\ events[i].Id # events[j].Id
          /\ ValidInterval(events[i]) /\ ValidInterval(events[j]) )
        => /\ (j \in ConflictSet(i)) <=>
                  ~(events[i].End <= events[j].Start \/ events[j].End <= events[i].Start)
           /\ (j \in ConflictSet(i)) <=> (i \in ConflictSet(j))
           /\ events[i].End = events[j].Start => j \notin ConflictSet(i)

\* a loaded day with two back-to-back events, neither declined
C1_Witness ==
    /\ Len(events) = 2
    /\ ~Declined(events[1]) /\ ~Declined(events[2])
    /\ ValidInterval(events[1]) /\ ValidInterval(events[2])
    /\ events[1].End = events[2].Start
    /\ ConflictSet(1) = {} /\ ConflictSet(2) = {}

\* C2: the events the list shows belong to the displayed day: a load result
\* for a day that a later day change has superseded is not applied
C2_ShownEventsOfShownDay ==
    \A k \in 1..Len(items) : events[items[k]].day = FormatDay(date)

\* C3: after a failed status or note patch the event is as it was before the
\* action and the error is shown
C3_FailedPatchLeavesEvent ==
    /\ (last.op = "statusPatchFailed" /\ last.live)
          => /\ events[last.from].AttendeeStatus = last.st
             /\ errorMessage # ""
    /\ (last.op = "notePatchFailed" /\ last.live)
          => /\ events[last.from].Comment = last.note
             /\ errorMessage # ""

\* C4: in every state a declined event fails the test of "next interesting"
C4_DeclinedNotInteresting ==
    \A i \in 1..Len(events) : Declined(events[i]) => ~isInteresting(events[i])

\* C5: after a load a declined event has no conflicts and is in no other
\* event's conflicts
C5_DeclinedInNoConflict ==
    \A i \in 1..Len(events) :
        Declined(events[i]) =>
            /\ events[i].ConflictsWith = << >>
            /\ \A j \in 1..Len(events) : i \notin ConflictSet(j)

\* a loaded day with a declined event inside the interval of another event
C5_Witness ==
    \E i, j \in 1..Len(events) :
        /\ Declined(events[i]) /\ ~Declined(events[j])
        /\ ValidInterval(events[i]) /\ ValidInterval(events[j])
        /\ events[j].Start <= events[i].Start /\ events[i].End <= events[j].End

\* C6: after a load an event with an empty or inverted interval has no
\* conflicts and is in no other event's conflicts
C6_DegenerateInNoConflict ==
    \A i \in 1..Len(events) :
        ~ValidInterval(events[i]) =>
            /\ events[i].ConflictsWith = << >>
            /\ \A j \in 1..Len(events) : i \notin ConflictSet(j)

\* needsAction or tentative, or some conflict
NeedsAttention(e) ==
    e.AttendeeStatus \in {"needsAction", "tentative"} \/ e.ConflictsWith # << >>

\* C7: "next interesting" at index i of a non-empty list moves the cursor to the
\* first index after i in circular order whose event needs attention, and
\* leaves it at i if no other event does; the cursor stays a valid index
C7_NextInteresting ==
    last.op = "nextEvent" =>
        LET n == Len(items)
            i == last.from
            steps == {k \in 1..(n - 1) : NeedsAttention(ItemEvents[((i + k) % n) + 1])}
        IN  /\ index \in 0..(n - 1)
            /\ index = IF steps = {} THEN i ELSE (i + SetMin(steps)) % n

\* the cursor went from the second of three events round to the first
C7_Witness ==
    /\ last.op = "nextEvent"
    /\ Len(items) = 3
    /\ last.from = 1
    /\ index = 0
    /\ ~NeedsAttention(events[3])

ScenarioLoaded ==
    /\ server[0] = ScenarioDay(0)
    /\ FormatDay(date) = 0
    /\ Len(events) = 3

\* C8: the interest test is "needsAction or tentative, or some conflict"; in the
\* scenario day A and B conflict with each other and are interesting, the declined
\* C has no conflict and is not
C8_InterestAndScenario ==
    /\ \A i \in 1..Len(events) : isInteresting(events[i]) <=> NeedsAttention(events[i])
    /\ ScenarioLoaded =>
          /\ ConflictSet(1) = {2} /\ ConflictSet(2) = {1} /\ ConflictSet(3) = {}
          /\ isInteresting(events[1]) /\ isInteresting(events[2])
          /\ ~isInteresting(events[3])

C8_Witness == ScenarioLoaded /\ items = << 1, 2, 3 >>

\* C9: the endpoint sweep and the pairwise comparison give every event the
\* same conflict set, whatever the intervals
C9_SweepEqualsPairwise ==
    \A i \in 1..Len(events) : ConflictSet(i) = SweepConflicts(events, i)

\* C10: the event list changes only when Update handles a load result or a
\* patch acknowledgment, never in a command's goroutine
C10_EventsChangeOnlyInUpdate ==
    [][ events' # events =>
          \/ \E k \in 1..Len(msgs) : UpdateEventsLoaded(k)
          \/ \E k \in 1..Len(msgs) : UpdateEventUpdated(k) ]_vars

\* the step ends the goroutine of a command
CommandEnds == Len(cmds') < Len(cmds) /\ proc' # "quit"

\* C11: the step in which a command ends (a load, a status patch, a note
\* patch), whether its external call succeeds or fails, leaves the machine
\* running and sends it exactly one result message
C11_CommandYieldsOneMessage ==
    [][ CommandEnds => (proc' = "running" /\ Len(msgs') = Len(msgs) + 1) ]_vars

\* C12: a failing list call is not fatal: the machine keeps running and the
\* failure reaches Update as a non-fatal error, so that "reload" can retry
C12_FailedLoadNotFatal ==
    [][ (\E k \in 1..Len(cmds) : RunLoadEventsFatal(k)) =>
            /\ proc' = "running"
            /\ Len(msgs') = Len(msgs) + 1
            /\ msgs'[Len(msgs')].kind = "nonFatalErrorMsg" ]_vars

\* the ids of the items of a listing that have both instants, parseable
WellFormedIds(l) ==
    LET ok == SelectSeq(l, LAMBDA it : it.dt = "ok")
    IN  [k \in 1..Len(ok) |-> ok[k].Id]

\* C13: a load skips the items without an instant and those with an
\* unparseable one, and its result holds every other item in upstream order
C13_MalformedSkipped ==
    [][ \A k \in 1..Len(cmds) :
          (RunLoadEvents(k) \/ RunLoadEventsBadTime(k)) =>
              /\ Len(msgs') = Len(msgs) + 1
              /\ msgs'[Len(msgs')].kind = "eventsLoadedMsg"
              /\ [i \in 1..Len(msgs'[Len(msgs')].events) |-> msgs'[Len(msgs')].events[i].Id]
                    = WellFormedIds(Listing(server, cmds[k].date)) ]_vars

\* a key of Browsing that starts a reload, or a confirmed date
ReloadStep ==
    \/ KeyNextDay
    \/ KeyPrevDay
    \/ KeyGotoToday
    \/ KeyReload
    \/ (ParseOk(inputDate) /\ EnterDate)

\* C14: a reload empties the event list in the same step, the list stays
\* empty until a load result arrives, and the result replaces it wholesale
C14_ReloadClearsEvents ==
    [][ /\ ReloadStep => (events' = << >> /\ items' = << >>)
        /\ (events = << >> /\ ~(\E k \in 1..Len(msgs) : UpdateEventsLoaded(k)))
              => events' = << >>
        /\ \A k \in 1..Len(msgs) : UpdateEventsLoaded(k) =>
              (events' = msgs[k].events /\ Len(items') = Len(events')) ]_vars

\* the step starts exactly one load, for the date it leaves displayed
LoadEmitted == cmds' = Append(cmds, LoadCmd(date'))

\* C15: in Browsing the right arrow displays exactly the next calendar day, the
\* left arrow exactly the previous one, "reload" keeps the date, and each of
\* them starts a load for the resulting date
C15_DayKeys ==
    [][ /\ KeyNextDay => (FormatDay(date') = FormatDay(date) + 1 /\ LoadEmitted)
        /\ KeyPrevDay => (FormatDay(date') = FormatDay(date) - 1 /\ LoadEmitted)
        /\ KeyReload => (date' = date /\ LoadEmitted) ]_vars

\* time.Weekday of a calendar day: day 0 is a Thursday, Sunday is 0
Weekday(d) == (d + 4) % 7

\* the first day after d that is not a Saturday or a Sunday
NextWeekday(d) ==
    CHOOSE n \in (d + 1)..(d + 3) :
        /\ Weekday(n) \notin {0, 6}
        /\ \A m \in (d + 1)..(n - 1) : Weekday(m) \in {0, 6}

\* the last day before d that is not a Saturday or a Sunday
PrevWeekday(d) ==
    CHOOSE n \in (d - 3)..(d - 1) :
        /\ Weekday(n) \notin {0, 6}
        /\ \A m \in (n + 1)..(d - 1) : Weekday(m) \in {0, 6}

\* C16: in Browsing Shift+Right displays the next weekday and Shift+Left the
\* previous weekday, skipping Saturday and Sunday
C16_WeekdayKeys ==
    [][ /\ KeyShiftRight => FormatDay(date') = NextWeekday(FormatDay(date))
        /\ KeyShiftLeft => FormatDay(date') = PrevWeekday(FormatDay(date)) ]_vars

\* C17: "jump to day" moves to EnteringDate with the date field holding the
\* displayed day, which read back as a date is that day, and changes neither
\* date nor events; "confirm" with a date moves to Browsing, displays the
\* day that was entered and starts exactly one load, for it
C17_JumpToDay ==
    [][ /\ KeyJumpToDay =>
              /\ uiMode' = "inputDate"
              /\ ParseOk(inputDate')
              /\ FormatDay(ParseDate(inputDate')) = FormatDay(date)
              /\ date' = date /\ events' = events /\ items' = items /\ cmds' = cmds
        /\ (ParseOk(inputDate) /\ EnterDate) =>
              /\ uiMode' = "default"
              /\ FormatDay(date') = inputDate[2]
              /\ LoadEmitted ]_vars

\* a date was confirmed where time.Local is not UTC, and its load is pending
C17_Witness ==
    /\ uiMode = "default"
    /\ date.loc = "UTC"
    /\ zone.before # 0
    /\ Len(cmds) >= 2
    /\ cmds[Len(cmds)] = LoadCmd(date)

\* C18: "confirm" in EnteringDate with text that is no date sets the error,
\* stays in EnteringDate, keeps date and events and starts no load
C18_BadDateStays ==
    [][ (~ParseOk(inputDate) /\ EnterDate) =>
            /\ errorMessage' # ""
            /\ uiMode' = "inputDate"
            /\ date' = date /\ events' = events /\ items' = items
            /\ cmds' = cmds ]_vars

\* text that is no date was confirmed
C18_Witness ==
    /\ uiMode = "inputDate"
    /\ ~ParseOk(inputDate)
    /\ errorMessage # ""

\* the note of the viewer's own attendee entry of events[i]
OwnNote(i) == IF events[i].Self THEN events[i].Comment ELSE ""

C20_ConfirmNote ==
    [][ /\ EnterNote =>
              /\ uiMode' = "default"
              /\ Len(cmds') = Len(cmds) + 1
              /\ cmds'[Len(cmds')].kind = "updateEventNote"
              /\ cmds'[Len(cmds')].eventId = selectedEventId
              /\ cmds'[Len(cmds')].note = inputNote
        /\ selectedEventId' # selectedEventId =>
              \E k \in 1..Len(msgs) : UpdateAddNote(k)
        /\ \A k \in 1..Len(cmds) :
              (RunUpdateEventNote(k) \/ RunUpdateEventNoteFail(k)) =>
                  /\ \A i \in 1..Len(events) :
                        events[i].Id # cmds[k].eventId => events'[i] = events[i]
                  /\ \A d \in DOMAIN server : \A j \in 1..Len(server[d]) :
                        server[d][j].Id # cmds[k].eventId
                            => server'[d][j] = server[d][j] ]_vars

\* the note of the second event of a day was patched upstream
C20_Witness ==
    \E d \in DOMAIN server :
        /\ Len(server[d]) >= 2
        /\ server[d][2].Comment # ""
        /\ server[d][1].Comment = ""

\* main has called parseDateArg
DateParsed ==
    \/ boot.pc \in {"parsed", "started"}
    \/ boot.pc = "fatal" /\ boot.client.err = ""

\* C28: parseDateArg(arg, base) returns base for the empty argument, base plus
\* N days for "+Nd", base minus N days for "-Nd", the given day for a
\* YYYY-mm-dd argument, and an error together with base for what it rejects
C28_ParseDateArg ==
    DateParsed =>
        LET arg == boot.dateStr
            base == boot.base
            r == boot.showDate
        IN  /\ arg = << >> => r = [t |-> base, err |-> ""]
            /\ \A n \in 0..MaxShift :
                 /\ arg = << "+", << n >>, "d" >> => r = [t |-> AddDays(base, n), err |-> ""]
                 /\ arg = << "-", << n >>, "d" >> => r = [t |-> AddDays(base, 0 - n), err |-> ""]
            /\ \A d \in Days :
                 arg = << "date", d >> => r.err = "" /\ FormatDate(r.t) = arg
            /\ r.err # "" => r.t = base

\* main has called createOAuth2Client
ClientCreated == boot.pc # "flags"

\* C29: createOAuth2Client returns an error in test mode without a cassette
\* file; without test mode a client whose transport is no recorder; in test
\* mode with an existing cassette file a client whose transport is a recorder
\* that replays
C29_CreateOAuth2Client ==
    ClientCreated =>
        /\ boot.testMode /\ boot.cassetteFile = "" => boot.client.err # ""
        /\ ~boot.testMode =>
             boot.client.err = "" /\ boot.client.transport \notin {"recorder", "none"}
        /\ boot.testMode /\ boot.cassetteFile = "existing" =>
             /\ boot.client.err = ""
             /\ boot.client.transport = "recorder"
             /\ boot.client.mode = "replaying"

C29_Witness ==
    /\ boot.pc = "started"
    /\ boot.testMode
    /\ boot.cassetteFile = "existing"
    /\ boot.client.mode = "replaying"

\* C21: from EnteringDate and EnteringNote a cancel key returns to Browsing
\* without changing the date or the events and without emitting a command
\* (the buffer is then out of use: entering the mode again sets it afresh);
\* a quit key ends the program from any mode
C21_CancelAndQuit ==
    [][/\ KeyInputEsc =>
            /\ uiMode' = "default"
            /\ UNCHANGED << date, events, cmds, msgs >>
       /\ KeyInputCtrlC => proc' = "quit"
       /\ KeyQuit => proc' = "quit"]_vars

\* C22: the error message holds the most recent non-fatal error and is empty
\* after a successful date confirm, after a load result and after a patch
\* acknowledgment
C22_ErrorCleared ==
    [][/\ \A k \in 1..Len(msgs) :
            UpdateNonFatalError(k) => errorMessage' = msgs[k].errorMessage
       /\ ParseOk(inputDate) /\ EnterDate => errorMessage' = ""
       /\ \A k \in 1..Len(msgs) : UpdateEventsLoaded(k) => errorMessage' = ""
       /\ \A k \in 1..Len(msgs) : UpdateEventUpdated(k) => errorMessage' = ""]_vars

\* C23: accept / decline in Browsing with an event selected emits exactly one
\* patch command, for the selected event and with the new status; the mode
\* stays Browsing, the date, the cursor and the events are as they were, and
\* the command, when it runs, changes no other event
C23_AcceptDecline ==
    [][/\ \A st \in {"accepted", "declined"} :
            KeyStatus(st) =>
                /\ Len(cmds') = Len(cmds) + 1
                /\ SubSeq(cmds', 1, Len(cmds)) = cmds
                /\ LET c == cmds'[Len(cmds')]
                   IN  /\ c.kind = "updateEventStatus"
                       /\ c.live
                       /\ events[c.ev].Id = events[SelectedItem].Id
                       /\ c.status = st
                /\ uiMode' = "default"
                /\ UNCHANGED << date, index, events, msgs >>
       /\ \A k \in 1..Len(cmds) :
            RunUpdateEventStatus(k) =>
                /\ Len(events') = Len(events)
                /\ \A i \in 1..Len(events) :
                     events'[i] # events[i] =>
                         /\ cmds[k].live /\ i = cmds[k].ev
                         /\ events'[i] = SetStatus(events[i], cmds[k].status)]_vars

C23_Witness ==
    /\ uiMode = "default"
    /\ \E k \in 1..Len(cmds) :
         /\ cmds[k].kind = "updateEventStatus"
         /\ cmds[k].status = "declined"
         /\ cmds[k].live
         /\ cmds[k].ev > 1

\* a patch command is running, or its result waits for Update
PatchPending ==
    \/ \E k \in 1..Len(cmds) : cmds[k].kind \in {"updateEventStatus", "updateEventNote"}
    \/ \E k \in 1..Len(msgs) : msgs[k].kind \in {"eventUpdatedMsg", "nonFatalErrorMsg"}

\* C24: the busy indicator is on from the moment a patch command is emitted
\* until its result is processed, and off once the result, acknowledgment or
\* error, of the last command at work has been processed
C24_BusyIndicator ==
    [][/\ PatchPending' => spinner'
       /\ \A k \in 1..Len(msgs) :
            (UpdateEventUpdated(k) \/ UpdateNonFatalError(k))
                /\ cmds' = << >> /\ msgs' = << >>
                => ~spinner']_vars

\* C25: open link in Browsing opens the link of the selected event and changes
\* no state: mode, date, events and cursor are as they were, and no load or
\* patch command is emitted
C25_OpenLink ==
    [][DefaultKey /\ SelectedItem # 0 /\ last'.op = "openInBrowser" =>
         /\ last'.from = HtmlLink(events[SelectedItem])
         /\ UNCHANGED << uiMode, date, events, items, index, cmds, msgs, spinner,
                         server >>]_vars

C25_Witness ==
    /\ last.op = "openInBrowser"
    /\ index > 0
    /\ last.from = events[SelectedItem].Id
    /\ events[SelectedItem].ConflictsWith # << >>

\* the items of the shown day's listing that ingestion keeps
KeptItems == SelectSeq(Listing(server, date), LAMBDA it : it.dt # "missing")

\* the status the description gives an event at ingestion
NormalizedStatus(it) ==
    IF it.Self THEN it.ResponseStatus
    ELSE IF it.CreatorSelf THEN "accepted" ELSE "unknown"

\* C26: at ingestion the status of an event is that of the viewer's own
\* attendee entry, else unknown, and unknown becomes accepted exactly when the
\* viewer is the creator; every ingestion path does so (loadEvents, whose
\* result is the event list, fetchEventsForDate and the historical main)
C26_StatusAtIngestion ==
    events # << >> /\ Len(events) = Len(KeptItems) =>
        \A i \in 1..Len(events) :
            /\ events[i].AttendeeStatus = NormalizedStatus(KeptItems[i])
            /\ fetchAttendeeStatus(KeptItems[i]) = NormalizedStatus(KeptItems[i])
            /\ AttendeeStatusOfNoCreator(KeptItems[i]) = NormalizedStatus(KeptItems[i])

\* the same events: ids, intervals and statuses
SameEventSet(old, new) ==
    /\ Len(old) = Len(new)
    /\ Len(old) > 0
    /\ \A i \in 1..Len(old) :
         /\ old[i].Id = new[i].Id
         /\ old[i].Start = new[i].Start
         /\ old[i].End = new[i].End
         /\ old[i].AttendeeStatus = new[i].AttendeeStatus

\* C27: when a load result brings the event set the list already holds from
\* the load before, every event has the conflicts and the interest it had:
\* conflicts are computed anew on each load and never accumulate
C27_ReloadIdempotent ==
    [][\A k \in 1..Len(msgs) :
         UpdateEventsLoaded(k) /\ SameEventSet(events, msgs[k].events) =>
             \A i \in 1..Len(events) :
                 /\ events'[i].ConflictsWith = events[i].ConflictsWith
                 /\ isInteresting(events'[i]) = isInteresting(events[i])]_vars

C27_Witness ==
    \E k \in 1..Len(msgs) :
        /\ msgs[k].kind = "eventsLoadedMsg"
        /\ SameEventSet(events, msgs[k].events)
        /\ events[1].ConflictsWith # << >>

\* C30: no event's conflictsWith holds the event itself or an event of its own
\* id, and none holds the same event twice; so two events of one id are never
\* recorded as conflicting with each other
C30_NoSelfNoDuplicate ==
    \A i \in 1..Len(events) :
        LET cw == events[i].ConflictsWith
        IN  \A p \in 1..Len(cw) :
                /\ cw[p] # i
                /\ events[cw[p]].Id # events[i].Id
                /\ \A q \in 1..Len(cw) : p # q => cw[p] # cw[q]

C30_Witness ==
    /\ Len(events) = 3
    /\ events[1].Id = events[2].Id
    /\ ~Declined(events[1]) /\ ~Declined(events[2])
    /\ intersectsWith(events[1], events[2])
    /\ events[1].ConflictsWith = << 3 >>
    /\ events[3].ConflictsWith = << 1, 2 >>

\* C31: the note target is set only while the mode is EnteringNote: in
\* Browsing and in EnteringDate, also after a note confirm, none is set
C31_NoteTargetOnlyInNoteMode ==
    uiMode # "inputNote" => selectedEventId = 0

\* Browsing, EnteringDate, EnteringNote
Modes == {"default", "inputDate", "inputNote"}

\* C32: the program starts in Browsing with the chosen date, no events, no
\* error and the busy indicator on, and start-up issues exactly one load
\* command, for the chosen date; the mode is always one of the three
C32_StartState ==
    [][/\ MainStart =>
            /\ uiMode' = "default"
            /\ date' = boot.showDate.t
            /\ events' = << >>
            /\ errorMessage' = ""
            /\ spinner'
            /\ cmds' = << LoadCmd(boot.showDate.t) >>
            /\ msgs' = << >>
       /\ uiMode \in Modes
       /\ uiMode' \in Modes]_vars

C32_Witness ==
    /\ proc = "running"
    /\ issued = 0
    /\ boot.dateStr = << "+", << 1 >>, "d" >>
    /\ date = AddDays(boot.base, 1)
    /\ cmds = << LoadCmd(date) >>
    /\ uiMode = "default"

\* C33: in EnteringDate and EnteringNote a key of Browsing changes at most
\* the text of the active field: mode, date, events and cursor stay and no
\* command is emitted; a load result that arrives in an input mode replaces
\* the events and leaves the mode and both texts as they are
C33_InputModeKeys ==
    [][/\ \A k \in BrowsingKeys :
            KeyInInput(k) =>
                /\ UNCHANGED << uiMode, date, events, items, index, cmds, msgs, spinner,
                                server, proc >>
                /\ uiMode = "inputDate" => inputNote' = inputNote
                /\ uiMode = "inputNote" => inputDate' = inputDate
       /\ \A k \in 1..Len(msgs) :
            uiMode \in {"inputDate", "inputNote"} /\ UpdateEventsLoaded(k) =>
                /\ events' = msgs[k].events
                /\ UNCHANGED << uiMode, inputDate, inputNote >>]_vars

C33_Witness ==
    /\ last.op \in Runes
    /\ uiMode = "inputDate"
    /\ inputDate = << "x" >>
    /\ events # << >>

\* C34: after accept (decline) on the selected event and a successful patch
\* the status of that event in the event list is accepted (declined), also
\* for an event without an attendee entry of the viewer; the acknowledgment
\* leaves the events as the patch command left them
C34_StatusAfterPatch ==
    [][/\ \A k \in 1..Len(cmds) :
            RunUpdateEventStatus(k) /\ cmds[k].live =>
                events'[cmds[k].ev].AttendeeStatus = cmds[k].status
       /\ \A k \in 1..Len(msgs) :
            UpdateEventUpdated(k) => events' = events]_vars

\* the note command's target is not in the event list the command holds
TargetMissing(c) ==
    c.kind = "updateEventNote" /\ FindEvent(CmdEvents(c), c.eventId) = 0

C36_JumpRoundTrip ==
    [][EnterDate /\ inputDate = FormatDate(date) => date'.t = date.t]_vars

\* C37: when loadEvents and fetchEventsForDate both succeed on the same
\* listing they give the same events in the same order, with the same status
\* and the same conflicts
C37_LoadEqualsFetch ==
    [][\A k \in 1..Len(cmds) :
         RunLoadEvents(k) /\ fetchEventsForDate(server, cmds[k].date).err = "" =>
             msgs'[Len(msgs')].events = fetchEventsForDate(server, cmds[k].date).events]_vars

C37_Witness ==
    \E k \in 1..Len(msgs) :
        /\ msgs[k].kind = "eventsLoadedMsg"
        /\ \E i \in 1..Len(msgs[k].events) :
             /\ ~msgs[k].events[i].Self
             /\ msgs[k].events[i].AttendeeStatus = "accepted"
             /\ msgs[k].events[i].ConflictsWith # << >>
        /\ msgs[k].events = fetchEventsForDate(server, date).events

\* C38: getHTTPClient authorizes exactly when restoring the cached token
\* fails; after an authorization the token is in the file before the client
\* is returned; a failed authorization or store returns an error and no
\* client; a restored token is neither authorized again nor written
C38_GetHTTPClient ==
    /\ auth.authorized => auth.file0 \notin Tokens
    /\ auth.pc \in {"done", "failed"} => (auth.authorized <=> auth.file0 \notin Tokens)
    /\ auth.pc = "done" =>
         /\ auth.err = ""
         /\ auth.client \in Tokens
         /\ auth.client = auth.file
    /\ auth.pc = "failed" => auth.err # "" /\ auth.client = << >>
    /\ auth.file0 \in Tokens =>
         /\ auth.file = auth.file0
         /\ auth.pc \notin {"authorize", "store", "failed"}
         /\ auth.pc = "done" => auth.client = auth.file0

C38_Witness ==
    /\ auth.pc = "done"
    /\ auth.run = 2
    /\ ~auth.authorized
    /\ auth.file0 \in Tokens
    /\ auth.client = auth.file0

====
